---- MODULE Spec2Model ----
(***************************************************************************)
(* Appointment slot allocation engine of doctor-appointment-system:        *)
(* weekly schedules (working windows), the appointment ledger with its     *)
(* storage uniqueness constraints, and the request handlers that book,     *)
(* reschedule, cancel, and create / edit / delete schedules.               *)
(*                                                                         *)
(* Dates are day numbers, times of day are abstract ticks 0..MaxTime.      *)
(* Four specifications are given:                                          *)
(*   Spec        every request handler runs to completion as one step;     *)
(*   SpecLedger  the appointment requests alone, over whole-day windows;   *)
(*   SpecRace    the handlers' read (check / scan) and write (commit)      *)
(*               steps of concurrently served requests interleave;         *)
(*   SpecSlots   the slot listing, its loops running step by step.         *)
(***************************************************************************)
EXTENDS Integers, FiniteSets, Sequences, TLC

VARIABLES schedules, appointments, today, ops, pend

vars == <<schedules, appointments, today, ops, pend>>

----------------------------------------------------------------------------
(* Bounds of the model *)

MaxDate == 1
MaxTime == 3
MaxDay == 1
MaxSchedules == 2
MaxAppointments == 2
NumPatients == 2
MaxDuration == 1
MaxOps == 4
MaxLedgerOps == 5
MaxStep == 3
MaxBackStep == 1
MaxSlotOps == 4
MaxReason == 1

(* Program constants *)

DaysPerWeek == 7
MaxRangeDays == 30

DoctorId == 1
Doctors == {DoctorId}
Patients == (DoctorId + 1)..(DoctorId + NumPatients)
Users == Doctors \cup Patients

Dates == 0..MaxDate
Times == 0..MaxTime
DayInputs == 0..MaxDay
Durations == 1..MaxDuration

\* reason is free text: a booking carries the first text, an update any
Reasons == 0..MaxReason
BookingReasons == {0}

\* a time of day is one of TicksPerDay ticks; the next tick after the last
\* one is the first tick of the following day
TicksPerDay == MaxTime + 1

\* slot_duration is any integer the request carries
SlotDurations == (0 - MaxBackStep)..MaxStep

SCHEDULED == "scheduled"
COMPLETED == "completed"
CANCELLED == "cancelled"
AppointmentStatus == {SCHEDULED, COMPLETED, CANCELLED}

UserRole(u) == IF u \in Doctors THEN "doctor" ELSE "patient"

Weekday(d) == d % DaysPerWeek

----------------------------------------------------------------------------
(* Storage: rows, primary keys and uniqueness constraints *)

NoRow == [id |-> 0]

NextId(rows) == IF rows = {} THEN 1
                ELSE (CHOOSE m \in {r.id : r \in rows} :
                         \A r \in rows : r.id <= m) + 1

get_schedule(rows, sid) == {s \in rows : s.id = sid}

get_appointment(rows, aid) == {a \in rows : a.id = aid}

unique_doctor_schedule_active_only(rows) ==
    \A s1, s2 \in rows :
        (/\ s1.doctor_id = s2.doctor_id
         /\ s1.day_of_week = s2.day_of_week
         /\ s1.start_time = s2.start_time
         /\ s1.end_time = s2.end_time
         /\ s1.is_active /\ s2.is_active) => s1.id = s2.id

unique_doctor_schedule(rows) ==
    \A s1, s2 \in rows :
        (/\ s1.doctor_id = s2.doctor_id
         /\ s1.day_of_week = s2.day_of_week
         /\ s1.start_time = s2.start_time
         /\ s1.end_time = s2.end_time) => s1.id = s2.id

unique_slot_per_patient(rows) ==
    \A a1, a2 \in rows :
        (/\ a1.doctor_id = a2.doctor_id
         /\ a1.patient_id = a2.patient_id
         /\ a1.appointment_date = a2.appointment_date
         /\ a1.appointment_time = a2.appointment_time) => a1.id = a2.id

unique_slot_among_live(rows) ==
    \A a1, a2 \in rows :
        (/\ a1.doctor_id = a2.doctor_id
         /\ a1.appointment_date = a2.appointment_date
         /\ a1.appointment_time = a2.appointment_time
         /\ a1.status # CANCELLED
         /\ a2.status # CANCELLED) => a1.id = a2.id

unique_doctor_appointment_slot(rows) ==
    \A a1, a2 \in rows :
        (/\ a1.doctor_id = a2.doctor_id
         /\ a1.appointment_date = a2.appointment_date
         /\ a1.appointment_time = a2.appointment_time) => a1.id = a2.id

----------------------------------------------------------------------------
(* Requests *)

ScheduleCreate == [day_of_week : DayInputs, start_time : Times,
                   end_time : Times, slot_duration : Durations]

validate_times(req) == req.end_time > req.start_time

validate_day_of_week(req) == 0 <= req.day_of_week /\ req.day_of_week <= 6

NoScheduleUpdate == [fields |-> {}, day_of_week |-> 0, start_time |-> 0,
                     end_time |-> 0, slot_duration |-> 0, is_active |-> FALSE]

ScheduleUpdate ==
    {NoScheduleUpdate}
    \cup {[NoScheduleUpdate EXCEPT !.fields = {"day_of_week"}, !.day_of_week = w] :
             w \in DayInputs}
    \cup {[NoScheduleUpdate EXCEPT !.fields = {"start_time"}, !.start_time = t] :
             t \in Times}
    \cup {[NoScheduleUpdate EXCEPT !.fields = {"end_time"}, !.end_time = t] :
             t \in Times}
    \cup {[NoScheduleUpdate EXCEPT !.fields = {"start_time", "end_time"},
                                   !.start_time = t[1], !.end_time = t[2]] :
             t \in Times \X Times}
    \cup {[NoScheduleUpdate EXCEPT !.fields = {"slot_duration"}, !.slot_duration = n] :
             n \in Durations}
    \cup {[NoScheduleUpdate EXCEPT !.fields = {"is_active"}, !.is_active = b] :
             b \in BOOLEAN}

AppointmentCreate == [doctor_id : Doctors, appointment_date : Dates,
                      appointment_time : Times, reason : BookingReasons]

validate_strictly_future(req) == req.appointment_date > today

validate_future_date(req) == ~(req.appointment_date < today)

NoAppointmentUpdate == [fields |-> {}, appointment_date |-> 0,
                        appointment_time |-> 0, reason |-> 0,
                        status |-> SCHEDULED]

AppointmentUpdate ==
    {NoAppointmentUpdate}
    \cup {[NoAppointmentUpdate EXCEPT !.fields = {"status"}, !.status = s] :
             s \in AppointmentStatus}
    \cup {[NoAppointmentUpdate EXCEPT !.fields = {"appointment_date"},
                                      !.appointment_date = d] : d \in Dates}
    \cup {[NoAppointmentUpdate EXCEPT !.fields = {"appointment_time"},
                                      !.appointment_time = t] : t \in Times}
    \cup {[NoAppointmentUpdate EXCEPT !.fields = {"appointment_date", "appointment_time"},
                                      !.appointment_date = x[1],
                                      !.appointment_time = x[2]] :
             x \in Dates \X Times}
    \cup {[NoAppointmentUpdate EXCEPT !.fields = {"reason"}, !.reason = n] :
             n \in Reasons}
    \cup {[NoAppointmentUpdate EXCEPT !.fields = {"appointment_date", "appointment_time",
                                                  "reason"},
                                      !.appointment_date = x[1],
                                      !.appointment_time = x[2],
                                      !.reason = x[3]] :
             x \in Dates \X Times \X Reasons}

----------------------------------------------------------------------------
(* crud_appointment *)

\* The row(s) Query.first() may return for the schedule lookup of
\* check_slot_availability: the query has no ORDER BY, so any matching
\* active schedule of that doctor and weekday can come first.
first_schedule(srows, doctor_id, appointment_date) ==
    LET match == {s \in srows : /\ s.doctor_id = doctor_id
                                /\ s.day_of_week = Weekday(appointment_date)
                                /\ s.is_active}
    IN  IF match = {} THEN {NoRow} ELSE match

check_slot_scheduled_only(schedule, arows, doctor_id, appointment_date, appointment_time, exclude_appointment_id) ==
    IF schedule.id = NoRow.id THEN FALSE
    ELSE IF ~(schedule.start_time <= appointment_time
              /\ appointment_time < schedule.end_time) THEN FALSE
    ELSE {a \in arows : /\ a.doctor_id = doctor_id
                        /\ a.appointment_date = appointment_date
                        /\ a.appointment_time = appointment_time
                        /\ a.status = SCHEDULED
                        /\ a.id # exclude_appointment_id} = {}

check_slot_no_exclude(schedule, arows, doctor_id, appointment_date, appointment_time, exclude_appointment_id) ==
    IF schedule.id = NoRow.id THEN FALSE
    ELSE IF ~(schedule.start_time <= appointment_time
              /\ appointment_time < schedule.end_time) THEN FALSE
    ELSE {a \in arows : /\ a.doctor_id = doctor_id
                        /\ a.appointment_date = appointment_date
                        /\ a.appointment_time = appointment_time
                        /\ a.status # CANCELLED} = {}

check_slot_availability(schedule, arows, doctor_id, appointment_date, appointment_time, exclude_appointment_id) ==
    IF schedule.id = NoRow.id THEN FALSE
    ELSE IF ~(schedule.start_time <= appointment_time
              /\ appointment_time < schedule.end_time) THEN FALSE
    ELSE {a \in arows : /\ a.doctor_id = doctor_id
                        /\ a.appointment_date = appointment_date
                        /\ a.appointment_time = appointment_time
                        /\ a.status # CANCELLED
                        /\ a.id # exclude_appointment_id} = {}

\* create_appointment: INSERT, commit; IntegrityError -> rollback, ValueError
create_appointment(arows, req, patient_id) ==
    LET row == [id |-> NextId(arows), doctor_id |-> req.doctor_id,
                patient_id |-> patient_id,
                appointment_date |-> req.appointment_date,
                appointment_time |-> req.appointment_time,
                reason |-> req.reason,
                status |-> SCHEDULED]
        new == arows \cup {row}
    IN  IF unique_doctor_appointment_slot(new)
        THEN [result |-> "ok", rows |-> new, id |-> row.id]
        ELSE [result |-> "already_booked", rows |-> arows, id |-> 0]

apply_appointment_update_rebooking(a, upd) ==
    [a EXCEPT
       !.appointment_date = IF "appointment_date" \in upd.fields
                            THEN upd.appointment_date ELSE @,
       !.appointment_time = IF "appointment_time" \in upd.fields
                            THEN upd.appointment_time ELSE @,
       !.reason = IF "reason" \in upd.fields THEN upd.reason ELSE @,
       !.status = IF "status" \in upd.fields THEN upd.status
                  ELSE IF upd.fields # {} THEN SCHEDULED ELSE @]

apply_appointment_update(a, upd) ==
    [a EXCEPT
       !.appointment_date = IF "appointment_date" \in upd.fields
                            THEN upd.appointment_date ELSE @,
       !.appointment_time = IF "appointment_time" \in upd.fields
                            THEN upd.appointment_time ELSE @,
       !.reason = IF "reason" \in upd.fields THEN upd.reason ELSE @,
       !.status = IF "status" \in upd.fields THEN upd.status ELSE @]

\* update_appointment: setattr for every set field, commit;
\* IntegrityError -> rollback, ValueError
update_appointment_no_rollback(arows, aid, upd) ==
    LET new == {IF a.id = aid THEN apply_appointment_update(a, upd) ELSE a :
                    a \in arows}
    IN  IF unique_doctor_appointment_slot(new)
        THEN [result |-> "ok", rows |-> new]
        ELSE [result |-> "already_booked",
              rows |-> {IF a.id = aid
                        THEN [a EXCEPT !.reason =
                                 IF "reason" \in upd.fields THEN upd.reason ELSE @]
                        ELSE a : a \in arows}]

update_appointment(arows, aid, upd) ==
    LET new == {IF a.id = aid THEN apply_appointment_update(a, upd) ELSE a :
                    a \in arows}
    IN  IF unique_doctor_appointment_slot(new)
        THEN [result |-> "ok", rows |-> new]
        ELSE [result |-> "already_booked", rows |-> arows]

----------------------------------------------------------------------------
(* crud_schedule *)

create_schedule(srows, req, doctor_id) ==
    LET row == [id |-> NextId(srows), doctor_id |-> doctor_id,
                day_of_week |-> req.day_of_week,
                start_time |-> req.start_time, end_time |-> req.end_time,
                slot_duration |-> req.slot_duration, is_active |-> TRUE]
        new == srows \cup {row}
    IN  IF unique_doctor_schedule(new)
        THEN [result |-> "ok", rows |-> new, id |-> row.id]
        ELSE [result |-> "duplicate_schedule", rows |-> srows, id |-> 0]

future_appointments_any_status(arows, doctor_id) ==
    {a \in arows : /\ a.doctor_id = doctor_id
                   /\ a.appointment_date >= today}

\* the query shared by the three guard scans
future_appointments(arows, doctor_id) ==
    {a \in arows : /\ a.doctor_id = doctor_id
                   /\ a.appointment_date >= today
                   /\ a.status = SCHEDULED}

\* scan of the deactivation branch of update_schedule and of delete_schedule
affected_appointments(schedule, arows) ==
    {a \in future_appointments(arows, schedule.doctor_id) :
        /\ Weekday(a.appointment_date) = schedule.day_of_week
        /\ schedule.start_time <= a.appointment_time
        /\ a.appointment_time < schedule.end_time}

outside_new_hours_closed_end(schedule, arows, new_start, new_end) ==
    {a \in future_appointments(arows, schedule.doctor_id) :
        /\ Weekday(a.appointment_date) = schedule.day_of_week
        /\ ~(new_start <= a.appointment_time /\ a.appointment_time <= new_end)}

\* scan of the time-change branch of update_schedule
outside_new_hours(schedule, arows, new_start, new_end) ==
    {a \in future_appointments(arows, schedule.doctor_id) :
        /\ Weekday(a.appointment_date) = schedule.day_of_week
        /\ ~(new_start <= a.appointment_time /\ a.appointment_time < new_end)}

apply_schedule_update(s, upd) ==
    [s EXCEPT
       !.day_of_week = IF "day_of_week" \in upd.fields THEN upd.day_of_week ELSE @,
       !.start_time = IF "start_time" \in upd.fields THEN upd.start_time ELSE @,
       !.end_time = IF "end_time" \in upd.fields THEN upd.end_time ELSE @,
       !.slot_duration = IF "slot_duration" \in upd.fields
                         THEN upd.slot_duration ELSE @,
       !.is_active = IF "is_active" \in upd.fields THEN upd.is_active ELSE @]

\* the read half of update_schedule: the conflict scans on the rows read
update_schedule_scan(schedule, arows, upd) ==
    LET deact == affected_appointments(schedule, arows)
        new_start == IF "start_time" \in upd.fields
                     THEN upd.start_time ELSE schedule.start_time
        new_end == IF "end_time" \in upd.fields
                   THEN upd.end_time ELSE schedule.end_time
        outside == outside_new_hours(schedule, arows, new_start, new_end)
    IN  IF "is_active" \in upd.fields /\ upd.is_active = FALSE /\ deact # {}
        THEN [result |-> "cannot_deactivate", count |-> Cardinality(deact)]
        ELSE IF ("start_time" \in upd.fields \/ "end_time" \in upd.fields)
                /\ outside # {}
        THEN [result |-> "cannot_modify", count |-> Cardinality(outside)]
        ELSE [result |-> "ok", count |-> 0]

\* the write half of update_schedule: setattr, commit;
\* IntegrityError -> rollback, ValueError
update_schedule_commit(srows, schedule, upd) ==
    LET new == {IF s.id = schedule.id THEN apply_schedule_update(schedule, upd)
                ELSE s : s \in srows}
    IN  IF unique_doctor_schedule(new)
        THEN [result |-> "ok", count |-> 0, rows |-> new]
        ELSE [result |-> "duplicate_schedule", count |-> 0, rows |-> srows]

update_schedule_no_rollback(srows, arows, schedule, upd) ==
    LET scan == update_schedule_scan(schedule, arows, upd)
        new == {IF s.id = schedule.id THEN apply_schedule_update(schedule, upd)
                ELSE s : s \in srows}
    IN  IF scan.result # "ok"
        THEN [result |-> scan.result, count |-> scan.count, rows |-> new]
        ELSE update_schedule_commit(srows, schedule, upd)

update_schedule(srows, arows, schedule, upd) ==
    LET scan == update_schedule_scan(schedule, arows, upd)
    IN  IF scan.result # "ok"
        THEN [result |-> scan.result, count |-> scan.count, rows |-> srows]
        ELSE update_schedule_commit(srows, schedule, upd)

get_schedules_by_doctor_all(srows, doctor_id) ==
    LET active == {r \in srows : r.doctor_id = doctor_id}
        n == Cardinality(active)
    IN  {q \in [1..n -> active] :
            /\ \A i, j \in 1..n : i # j => q[i] # q[j]
            /\ \A i, j \in 1..n :
                  i < j => \/ q[i].day_of_week < q[j].day_of_week
                           \/ /\ q[i].day_of_week = q[j].day_of_week
                              /\ q[i].start_time <= q[j].start_time}

\* get_schedules_by_doctor: the doctor's active schedules ordered by
\* (day_of_week, start_time); rows that agree on both come in any order
get_schedules_by_doctor(srows, doctor_id) ==
    LET active == {r \in srows : r.doctor_id = doctor_id /\ r.is_active}
        n == Cardinality(active)
    IN  {q \in [1..n -> active] :
            /\ \A i, j \in 1..n : i # j => q[i] # q[j]
            /\ \A i, j \in 1..n :
                  i < j => \/ q[i].day_of_week < q[j].day_of_week
                           \/ /\ q[i].day_of_week = q[j].day_of_week
                              /\ q[i].start_time <= q[j].start_time}

booked_slots_any_status(arows, doctor_id, start_date, end_date) ==
    {<<a.appointment_date, a.appointment_time>> :
        a \in {b \in arows : /\ b.doctor_id = doctor_id
                             /\ b.appointment_date >= start_date
                             /\ b.appointment_date <= end_date}}

\* get_available_slots: the booked (date, time) pairs of the range
booked_slots(arows, doctor_id, start_date, end_date) ==
    {<<a.appointment_date, a.appointment_time>> :
        a \in {b \in arows : /\ b.doctor_id = doctor_id
                             /\ b.appointment_date >= start_date
                             /\ b.appointment_date <= end_date
                             /\ b.status # CANCELLED}}

\* get_available_slots: the schedules of the weekday of current_date
day_schedules(all_schedules, current_date) ==
    SelectSeq(all_schedules, LAMBDA r : r.day_of_week = Weekday(current_date))

\* get_available_slots: (datetime.combine(current_date, current_time)
\* + timedelta(minutes=slot_duration)).time(), the date part dropped
next_slot_time(current_time, slot_duration) ==
    (current_time + slot_duration) % TicksPerDay

first_slot_time(todo) == IF todo = <<>> THEN 0 ELSE Head(todo).start_time

AvailableSlot(current_date, current_time, doctor_id) ==
    [date |-> current_date, time |-> current_time, doctor_id |-> doctor_id]

delete_schedule_no_scan(schedule, arows) ==
    [result |-> "ok", count |-> 0]

delete_schedule_scan(schedule, arows) ==
    LET conflicting == affected_appointments(schedule, arows)
    IN  IF conflicting # {}
        THEN [result |-> "cannot_delete", count |-> Cardinality(conflicting)]
        ELSE [result |-> "ok", count |-> 0]

delete_schedule_commit(srows, schedule) ==
    [result |-> "ok", count |-> 0, rows |-> {s \in srows : s.id # schedule.id}]

delete_schedule(srows, arows, schedule) ==
    LET scan == delete_schedule_scan(schedule, arows)
    IN  IF scan.result # "ok"
        THEN [result |-> scan.result, count |-> scan.count, rows |-> srows]
        ELSE delete_schedule_commit(srows, schedule)

----------------------------------------------------------------------------
(* Request handlers (api/v1).  A handler maps the stored rows and a request *)
(* to the set of outcomes it can produce: the response and the rows left   *)
(* in storage.                                                             *)

Outcome(result, count, srows, arows) ==
    [result |-> result, count |-> count, schedules |-> srows,
     appointments |-> arows]

Rejected(result, count) == Outcome(result, count, schedules, appointments)

\* POST /schedules/
create_doctor_schedule(actor, req) ==
    LET r == create_schedule(schedules, req, actor)
    IN  IF ~(validate_day_of_week(req) /\ validate_times(req))
        THEN {Rejected("validation_error", 0)}
        ELSE IF UserRole(actor) # "doctor" THEN {Rejected("forbidden", 0)}
        ELSE {Outcome(r.result, 0, r.rows, appointments)}

\* PUT /schedules/{schedule_id}
update_doctor_schedule(actor, sid, upd) ==
    LET found == get_schedule(schedules, sid)
        schedule == CHOOSE s \in found : TRUE
        r == update_schedule(schedules, appointments, schedule, upd)
    IN  IF found = {} THEN {Rejected("not_found", 0)}
        ELSE IF schedule.doctor_id # actor THEN {Rejected("forbidden", 0)}
        ELSE {Outcome(r.result, r.count, r.rows, appointments)}

\* DELETE /schedules/{schedule_id}
delete_doctor_schedule(actor, sid) ==
    LET found == get_schedule(schedules, sid)
        schedule == CHOOSE s \in found : TRUE
        r == delete_schedule(schedules, appointments, schedule)
    IN  IF found = {} THEN {Rejected("not_found", 0)}
        ELSE IF schedule.doctor_id # actor THEN {Rejected("forbidden", 0)}
        ELSE {Outcome(r.result, r.count, r.rows, appointments)}

\* POST /appointments/
create_new_appointment(actor, req) ==
    LET r == create_appointment(appointments, req, actor)
    IN  IF ~validate_future_date(req) THEN {Rejected("validation_error", 0)}
        ELSE IF UserRole(actor) # "patient" THEN {Rejected("forbidden", 0)}
        ELSE {IF ~check_slot_availability(schedule, appointments, req.doctor_id,
                    req.appointment_date, req.appointment_time, 0)
              THEN Rejected("slot_not_available", 0)
              ELSE Outcome(r.result, 0, schedules, r.rows) :
                 schedule \in first_schedule(schedules, req.doctor_id,
                                             req.appointment_date)}

\* the permission checks shared by PUT and DELETE /appointments/{id}
appointment_access(actor, appointment) ==
    IF UserRole(actor) = "patient" THEN appointment.patient_id = actor
    ELSE appointment.doctor_id = actor

update_appointment_by_id_any_status(actor, aid, upd) ==
    LET found == get_appointment(appointments, aid)
        appointment == CHOOSE a \in found : TRUE
        new_date == IF "appointment_date" \in upd.fields
                    THEN upd.appointment_date ELSE appointment.appointment_date
        new_time == IF "appointment_time" \in upd.fields
                    THEN upd.appointment_time ELSE appointment.appointment_time
        r == update_appointment(appointments, aid, upd)
        written == IF r.result = "ok"
                   THEN Outcome("ok", 0, schedules, r.rows)
                   ELSE Outcome("unhandled_error", 0, schedules, r.rows)
    IN  IF found = {} THEN {Rejected("not_found", 0)}
        ELSE IF ~appointment_access(actor, appointment)
        THEN {Rejected("forbidden", 0)}
        ELSE IF "appointment_date" \in upd.fields
                \/ "appointment_time" \in upd.fields
        THEN {IF ~check_slot_availability(schedule, appointments,
                    appointment.doctor_id, new_date, new_time, aid)
              THEN Rejected("slot_not_available", 0)
              ELSE written :
                 schedule \in first_schedule(schedules, appointment.doctor_id,
                                             new_date)}
        ELSE {written}

\* PUT /appointments/{appointment_id}
update_appointment_by_id(actor, aid, upd) ==
    LET found == get_appointment(appointments, aid)
        appointment == CHOOSE a \in found : TRUE
        new_date == IF "appointment_date" \in upd.fields
                    THEN upd.appointment_date ELSE appointment.appointment_date
        new_time == IF "appointment_time" \in upd.fields
                    THEN upd.appointment_time ELSE appointment.appointment_time
        r == update_appointment(appointments, aid, upd)
        written == IF r.result = "ok"
                   THEN Outcome("ok", 0, schedules, r.rows)
                   ELSE Outcome("unhandled_error", 0, schedules, r.rows)
    IN  IF found = {} THEN {Rejected("not_found", 0)}
        ELSE IF ~appointment_access(actor, appointment)
        THEN {Rejected("forbidden", 0)}
        ELSE IF /\ UserRole(actor) = "patient"
                /\ "status" \in upd.fields
                /\ upd.status # CANCELLED
        THEN {Rejected("forbidden", 0)}
        ELSE IF "appointment_date" \in upd.fields
                \/ "appointment_time" \in upd.fields
        THEN {IF ~check_slot_availability(schedule, appointments,
                    appointment.doctor_id, new_date, new_time, aid)
              THEN Rejected("slot_not_available", 0)
              ELSE written :
                 schedule \in first_schedule(schedules, appointment.doctor_id,
                                             new_date)}
        ELSE {written}

CancelUpdate == [NoAppointmentUpdate EXCEPT !.fields = {"status"},
                                            !.status = CANCELLED]

cancel_appointment_once(actor, aid) ==
    LET found == get_appointment(appointments, aid)
        appointment == CHOOSE a \in found : TRUE
        r == update_appointment(appointments, aid, CancelUpdate)
    IN  IF found = {} THEN {Rejected("not_found", 0)}
        ELSE IF ~appointment_access(actor, appointment)
        THEN {Rejected("forbidden", 0)}
        ELSE IF appointment.status = CANCELLED
        THEN {Rejected("already_cancelled", 0)}
        ELSE {Outcome("ok", 0, schedules, r.rows)}

cancel_appointment_delete(actor, aid) ==
    LET found == get_appointment(appointments, aid)
        appointment == CHOOSE a \in found : TRUE
    IN  IF found = {} THEN {Rejected("not_found", 0)}
        ELSE IF ~appointment_access(actor, appointment)
        THEN {Rejected("forbidden", 0)}
        ELSE {Outcome("ok", 0, schedules,
                      {a \in appointments : a.id # aid})}

\* DELETE /appointments/{appointment_id}
cancel_appointment(actor, aid) ==
    LET found == get_appointment(appointments, aid)
        appointment == CHOOSE a \in found : TRUE
        r == update_appointment(appointments, aid, CancelUpdate)
    IN  IF found = {} THEN {Rejected("not_found", 0)}
        ELSE IF ~appointment_access(actor, appointment)
        THEN {Rejected("forbidden", 0)}
        ELSE {Outcome("ok", 0, schedules, r.rows)}

----------------------------------------------------------------------------
(* State after construction: empty tables, no request in flight *)

Idle == [pc |-> "idle"]

Init ==
    /\ schedules = {}
    /\ appointments = {}
    /\ today \in Dates
    /\ ops = 0
    /\ pend = [u \in Users |-> Idle]

(* Requests served one at a time.  ops counts the requests that changed   *)
(* the stored rows; a behaviour serves at most `budget` of them.           *)

Serve(outcomes, budget) ==
    /\ \E o \in outcomes :
         /\ schedules' = o.schedules
         /\ appointments' = o.appointments
    /\ ops' = IF schedules' # schedules \/ appointments' # appointments
              THEN ops + 1 ELSE ops
    /\ ops' <= budget

ScheduleIds == 1..MaxSchedules
AppointmentIds == 1..MaxAppointments

DefineWindow ==
    /\ Cardinality(schedules) < MaxSchedules
    /\ \E actor \in Users, req \in ScheduleCreate :
          Serve(create_doctor_schedule(actor, req), MaxOps)
    /\ UNCHANGED <<today, pend>>

EditWindow ==
    /\ \E actor \in Users, sid \in ScheduleIds, upd \in ScheduleUpdate :
          Serve(update_doctor_schedule(actor, sid, upd), MaxOps)
    /\ UNCHANGED <<today, pend>>

RemoveWindow ==
    /\ \E actor \in Users, sid \in ScheduleIds :
          Serve(delete_doctor_schedule(actor, sid), MaxOps)
    /\ UNCHANGED <<today, pend>>

BookSlot ==
    /\ Cardinality(appointments) < MaxAppointments
    /\ \E actor \in Users, req \in AppointmentCreate :
          Serve(create_new_appointment(actor, req), MaxOps)
    /\ UNCHANGED <<today, pend>>

UpdateAppointment ==
    /\ \E actor \in Users, aid \in AppointmentIds, upd \in AppointmentUpdate :
          Serve(update_appointment_by_id(actor, aid, upd), MaxOps)
    /\ UNCHANGED <<today, pend>>

CancelAppointment ==
    /\ \E actor \in Users, aid \in AppointmentIds :
          Serve(cancel_appointment(actor, aid), MaxOps)
    /\ UNCHANGED <<today, pend>>

Next ==
    \/ DefineWindow
    \/ EditWindow
    \/ RemoveWindow
    \/ BookSlot
    \/ CancelAppointment
    \/ UpdateAppointment

Spec == Init /\ [][Next]_vars

----------------------------------------------------------------------------
(* The ledger alone: the doctor opens whole-day windows, then only the     *)
(* appointment operations run (book, reschedule, status change, cancel).   *)

WholeDay == {req \in ScheduleCreate :
                req.start_time = 0 /\ req.end_time = MaxTime}

LedgerDefineWindow ==
    /\ Cardinality(schedules) < MaxSchedules
    /\ \E req \in WholeDay :
          Serve(create_doctor_schedule(DoctorId, req), MaxLedgerOps)
    /\ UNCHANGED <<today, pend>>

LedgerBookSlot ==
    /\ Cardinality(appointments) < MaxAppointments
    /\ \E actor \in Users, req \in AppointmentCreate :
          Serve(create_new_appointment(actor, req), MaxLedgerOps)
    /\ UNCHANGED <<today, pend>>

LedgerUpdateAppointment ==
    /\ \E actor \in Users, aid \in AppointmentIds, upd \in AppointmentUpdate :
          Serve(update_appointment_by_id(actor, aid, upd), MaxLedgerOps)
    /\ UNCHANGED <<today, pend>>

LedgerCancelAppointment ==
    /\ \E actor \in Users, aid \in AppointmentIds :
          Serve(cancel_appointment(actor, aid), MaxLedgerOps)
    /\ UNCHANGED <<today, pend>>

NextLedger ==
    \/ LedgerDefineWindow
    \/ LedgerBookSlot
    \/ LedgerCancelAppointment
    \/ LedgerUpdateAppointment

SpecLedger == Init /\ [][NextLedger]_vars

----------------------------------------------------------------------------
(* Requests served concurrently.  Every user has at most one request in    *)
(* flight and issues one request in a behaviour.  A booking is two steps,  *)
(* the availability check and the ledger write; a window edit or removal   *)
(* is two steps, the conflict scan and the commit.  The handlers read and  *)
(* write the committed rows, each statement on its own.                    *)

InFlight(u) == pend[u].pc \in {"checked", "scanned"}

RaceEdits ==
    {upd \in ScheduleUpdate :
        /\ upd.fields # {}
        /\ upd.fields \subseteq {"start_time", "end_time", "is_active"}}

\* the doctor opens whole-day windows before any other request arrives
RaceDefineWindow ==
    /\ \A u \in Users : pend[u].pc = "idle"
    /\ Cardinality(schedules) < MaxSchedules
    /\ \E req \in WholeDay :
         \E o \in create_doctor_schedule(DoctorId, req) :
            /\ o.result = "ok"
            /\ schedules' = o.schedules
    /\ UNCHANGED <<appointments, today, ops, pend>>

\* create_new_appointment up to and including check_slot_availability
BookCheck ==
    /\ \E p \in Patients, req \in AppointmentCreate :
         /\ pend[p].pc = "idle"
         /\ \E schedule \in first_schedule(schedules, req.doctor_id,
                                           req.appointment_date) :
              pend' = [pend EXCEPT ![p] =
                 IF ~validate_future_date(req)
                 THEN [pc |-> "done", booking |-> req,
                       result |-> "validation_error"]
                 ELSE IF ~check_slot_availability(schedule, appointments,
                            req.doctor_id, req.appointment_date,
                            req.appointment_time, 0)
                 THEN [pc |-> "done", booking |-> req,
                       result |-> "slot_not_available"]
                 ELSE [pc |-> "checked", booking |-> req]]
    /\ UNCHANGED <<schedules, appointments, today, ops>>

\* create_new_appointment from create_appointment on
BookWrite ==
    /\ \E p \in Patients :
         /\ pend[p].pc = "checked"
         /\ LET r == create_appointment(appointments, pend[p].booking, p)
            IN  /\ appointments' = r.rows
                /\ pend' = [pend EXCEPT ![p] =
                              [pc |-> "done", booking |-> pend[p].booking,
                               result |-> r.result]]
    /\ UNCHANGED <<schedules, today, ops>>

\* update_schedule up to the conflict scans
EditScan ==
    /\ pend[DoctorId].pc = "idle"
    /\ \E schedule \in schedules, upd \in RaceEdits :
         /\ schedule.doctor_id = DoctorId
         /\ LET scan == update_schedule_scan(schedule, appointments, upd)
            IN  pend' = [pend EXCEPT ![DoctorId] =
                   IF scan.result # "ok"
                   THEN [pc |-> "done", kind |-> "update", schedule |-> schedule,
                         upd |-> upd, result |-> scan.result,
                         count |-> scan.count]
                   ELSE [pc |-> "scanned", kind |-> "update",
                         schedule |-> schedule, upd |-> upd]]
    /\ UNCHANGED <<schedules, appointments, today, ops>>

\* update_schedule from "Apply updates" on
EditCommit ==
    /\ pend[DoctorId].pc = "scanned"
    /\ pend[DoctorId].kind = "update"
    /\ LET r == update_schedule_commit(schedules, pend[DoctorId].schedule,
                                       pend[DoctorId].upd)
       IN  /\ schedules' = r.rows
           /\ pend' = [pend EXCEPT ![DoctorId] =
                         [pc |-> "done", kind |-> "update",
                          schedule |-> pend[DoctorId].schedule,
                          upd |-> pend[DoctorId].upd, result |-> r.result,
                          count |-> 0]]
    /\ UNCHANGED <<appointments, today, ops>>

\* delete_schedule up to the conflict scan
RemoveScan ==
    /\ pend[DoctorId].pc = "idle"
    /\ \E schedule \in schedules :
         /\ schedule.doctor_id = DoctorId
         /\ LET scan == delete_schedule_scan(schedule, appointments)
            IN  pend' = [pend EXCEPT ![DoctorId] =
                   IF scan.result # "ok"
                   THEN [pc |-> "done", kind |-> "delete", schedule |-> schedule,
                         upd |-> NoScheduleUpdate, result |-> scan.result,
                         count |-> scan.count]
                   ELSE [pc |-> "scanned", kind |-> "delete",
                         schedule |-> schedule, upd |-> NoScheduleUpdate]]
    /\ UNCHANGED <<schedules, appointments, today, ops>>

\* delete_schedule from db.delete on
RemoveCommit ==
    /\ pend[DoctorId].pc = "scanned"
    /\ pend[DoctorId].kind = "delete"
    /\ LET r == delete_schedule_commit(schedules, pend[DoctorId].schedule)
       IN  /\ schedules' = r.rows
           /\ pend' = [pend EXCEPT ![DoctorId] =
                         [pc |-> "done", kind |-> "delete",
                          schedule |-> pend[DoctorId].schedule,
                          upd |-> NoScheduleUpdate, result |-> r.result,
                          count |-> 0]]
    /\ UNCHANGED <<appointments, today, ops>>

NextRace ==
    \/ RaceDefineWindow
    \/ BookCheck
    \/ BookWrite
    \/ EditScan
    \/ EditCommit
    \/ RemoveScan
    \/ RemoveCommit

SpecRace == Init /\ [][NextRace]_vars

----------------------------------------------------------------------------
(* The slot listing.  The doctor's windows and the ledger are set up by    *)
(* whole requests; then one caller asks for the available slots and the    *)
(* loops of get_available_slots run step by step, one iteration of the     *)
(* innermost loop at a time.  available_slots is kept up to MaxListed      *)
(* entries: a listing that returns never has more (every pass over one     *)
(* schedule on one date visits each time of day at most once).  An         *)
(* iteration that neither advances current_time nor appends within         *)
(* MaxListed leaves the state as it is: the loop is still running.         *)

MaxListed == Cardinality(Dates) * MaxSchedules * TicksPerDay

SlotScheduleCreate == [day_of_week : DayInputs, start_time : Times,
                       end_time : Times, slot_duration : SlotDurations]

\* the window edits that matter to the listing: end_time (which can store a
\* window whose end is not after its start) and is_active
SlotScheduleUpdate ==
    {upd \in ScheduleUpdate :
        \E f \in {"end_time", "is_active"} : upd.fields = {f}}

\* the listing endpoint takes no credentials; one caller and one booking
\* patient are enough
Caller == DoctorId
Booker == DoctorId + 1

NoListing == \A u \in Users : pend[u].pc = "idle"

SlotsDefineWindow ==
    /\ NoListing
    /\ Cardinality(schedules) < MaxSchedules
    /\ \E req \in SlotScheduleCreate :
          Serve(create_doctor_schedule(DoctorId, req), MaxSlotOps)
    /\ UNCHANGED <<today, pend>>

SlotsEditWindow ==
    /\ NoListing
    /\ \E sid \in ScheduleIds, upd \in SlotScheduleUpdate :
          Serve(update_doctor_schedule(DoctorId, sid, upd), MaxSlotOps)
    /\ UNCHANGED <<today, pend>>

SlotsBookSlot ==
    /\ NoListing
    /\ Cardinality(appointments) < MaxAppointments
    /\ \E req \in AppointmentCreate :
          Serve(create_new_appointment(Booker, req), MaxSlotOps)
    /\ UNCHANGED <<today, pend>>

SlotsSetStatus ==
    /\ NoListing
    /\ \E aid \in AppointmentIds, st \in AppointmentStatus :
          Serve(update_appointment_by_id(DoctorId, aid,
                   [NoAppointmentUpdate EXCEPT !.fields = {"status"},
                                               !.status = st]), MaxSlotOps)
    /\ UNCHANGED <<today, pend>>

\* GET /schedules/doctor/{doctor_id}/available-slots up to the first
\* iteration of get_available_slots
get_doctor_available_slots(doctor_id, start_date, end_date) ==
    IF end_date < start_date
    THEN {[pc |-> "listed", result |-> "range_invalid", doctor_id |-> doctor_id,
           start_date |-> start_date, end_date |-> end_date,
           available_slots |-> <<>>]}
    ELSE IF end_date - start_date > MaxRangeDays
    THEN {[pc |-> "listed", result |-> "range_too_long", doctor_id |-> doctor_id,
           start_date |-> start_date, end_date |-> end_date,
           available_slots |-> <<>>]}
    ELSE {IF q = <<>>
          THEN [pc |-> "listed", result |-> "ok", doctor_id |-> doctor_id,
                start_date |-> start_date, end_date |-> end_date,
                available_slots |-> <<>>]
          ELSE [pc |-> "listing", doctor_id |-> doctor_id,
                start_date |-> start_date, end_date |-> end_date,
                all_schedules |-> q,
                booked |-> booked_slots(appointments, doctor_id,
                                        start_date, end_date),
                current_date |-> start_date,
                todo |-> day_schedules(q, start_date),
                current_time |-> first_slot_time(day_schedules(q, start_date)),
                available_slots |-> <<>>] :
             q \in get_schedules_by_doctor(schedules, doctor_id)}

ListStart ==
    /\ NoListing
    /\ \E doctor_id \in Doctors, start_date \in Dates, end_date \in Dates :
         \E r \in get_doctor_available_slots(doctor_id, start_date, end_date) :
            pend' = [pend EXCEPT ![Caller] = r]
    /\ UNCHANGED <<schedules, appointments, today, ops>>

\* one step of the loops of get_available_slots
get_available_slots(r) ==
    IF r.current_date > r.end_date
    THEN [pc |-> "listed", result |-> "ok", doctor_id |-> r.doctor_id,
          start_date |-> r.start_date, end_date |-> r.end_date,
          available_slots |-> r.available_slots]
    ELSE IF r.todo = <<>>
    THEN LET d == r.current_date + 1
             todo == IF d > r.end_date THEN <<>>
                     ELSE day_schedules(r.all_schedules, d)
         IN  [r EXCEPT !.current_date = d, !.todo = todo,
                       !.current_time = first_slot_time(todo)]
    ELSE LET schedule == Head(r.todo)
         IN  IF r.current_time < schedule.end_time
             THEN [r EXCEPT
                     !.available_slots =
                        IF <<r.current_date, r.current_time>> \notin r.booked
                           /\ Len(@) < MaxListed
                        THEN Append(@, AvailableSlot(r.current_date,
                                          r.current_time, r.doctor_id))
                        ELSE @,
                     !.current_time =
                        next_slot_time(@, schedule.slot_duration)]
             ELSE [r EXCEPT !.todo = Tail(@),
                            !.current_time = first_slot_time(Tail(r.todo))]

ListStep ==
    /\ \E u \in Users :
         /\ pend[u].pc = "listing"
         /\ pend' = [pend EXCEPT ![u] = get_available_slots(pend[u])]
    /\ UNCHANGED <<schedules, appointments, today, ops>>

NextSlots ==
    \/ SlotsDefineWindow
    \/ SlotsEditWindow
    \/ SlotsBookSlot
    \/ SlotsSetStatus
    \/ ListStart
    \/ ListStep

\* the thread serving a listing request keeps running
InitSlots == Init /\ today = 0

SpecSlots == InitSlots /\ [][NextSlots]_vars /\ WF_vars(ListStep)

----------------------------------------------------------------------------
(* Properties *)

SameSlot(a, b) ==
    /\ a.doctor_id = b.doctor_id
    /\ a.appointment_date = b.appointment_date
    /\ a.appointment_time = b.appointment_time

SlotOf(a) == [doctor_id |-> a.doctor_id,
              appointment_date |-> a.appointment_date,
              appointment_time |-> a.appointment_time,
              reason |-> 0]

Covers(s, t) == s.start_time <= t /\ t < s.end_time

ActiveWindows(doctor_id, d) ==
    {s \in schedules : /\ s.doctor_id = doctor_id
                       /\ s.is_active
                       /\ s.day_of_week = Weekday(d)}

\* C1: in every state reached by booking, rescheduling, status changes and
\* cancellations, a (doctor, date, time) is held by at most one appointment
\* whose status is not CANCELLED.
NoDoubleBooking ==
    \A a, b \in appointments :
        (SameSlot(a, b) /\ a.status # CANCELLED /\ b.status # CANCELLED)
            => a.id = b.id

\* two live appointments of one doctor on one date, one of them already
\* moved on to COMPLETED
NoDoubleBookingWitness ==
    \E a, b \in appointments :
        /\ a.id # b.id
        /\ a.doctor_id = b.doctor_id
        /\ a.appointment_date = b.appointment_date
        /\ a.status = COMPLETED
        /\ b.status = SCHEDULED

\* C3: while a non-cancelled appointment holds (doctor, date, time), a further
\* booking of that slot by any patient is refused at the availability check
\* and stores nothing.
SecondBookingRefused ==
    \A a \in appointments :
        (a.status # CANCELLED /\ a.appointment_date >= today) =>
            \A p \in Patients :
                \A o \in create_new_appointment(p, SlotOf(a)) :
                    /\ o.result = "slot_not_available"
                    /\ o.appointments = appointments

\* a slot held by a COMPLETED appointment next to another live booking, with
\* room left in the ledger for the refused request
SecondBookingRefusedWitness ==
    /\ \E a \in appointments :
          a.status = COMPLETED /\ a.appointment_date >= today
    /\ \E b \in appointments : b.status = SCHEDULED
    /\ Cardinality(appointments) <= MaxAppointments

\* C4: once a SCHEDULED appointment has been cancelled, booking the same
\* (doctor, date, time) again, still inside the doctor's active windows and
\* not in the past, succeeds and stores a new SCHEDULED appointment.
RebookAfterCancel ==
    \A a \in appointments :
        (/\ a.status = CANCELLED
         /\ a.appointment_date >= today
         /\ \A b \in appointments : SameSlot(a, b) => b.status = CANCELLED
         /\ ActiveWindows(a.doctor_id, a.appointment_date) # {}
         /\ \A s \in ActiveWindows(a.doctor_id, a.appointment_date) :
                Covers(s, a.appointment_time))
        => \A p \in Patients :
               \A o \in create_new_appointment(p, SlotOf(a)) :
                   /\ o.result = "ok"
                   /\ \E b \in o.appointments \ appointments :
                         SameSlot(a, b) /\ b.status = SCHEDULED

\* C5: every future SCHEDULED appointment lies inside some active window of
\* its doctor on the weekday of its date, whatever windows were defined,
\* edited or removed and whatever was booked, rescheduled or changed.
NoOrphanedAppointments ==
    \A a \in appointments :
        (a.status = SCHEDULED /\ a.appointment_date >= today) =>
            \E s \in ActiveWindows(a.doctor_id, a.appointment_date) :
                Covers(s, a.appointment_time)

\* the appointments a window stands for: future, SCHEDULED, of its doctor,
\* on its weekday, inside [start_time, end_time)
FutureScheduledInside(s) ==
    {a \in appointments : /\ a.doctor_id = s.doctor_id
                          /\ a.status = SCHEDULED
                          /\ a.appointment_date >= today
                          /\ Weekday(a.appointment_date) = s.day_of_week
                          /\ Covers(s, a.appointment_time)}

Deactivate == [NoScheduleUpdate EXCEPT !.fields = {"is_active"},
                                       !.is_active = FALSE]

NewStart(s, upd) == IF "start_time" \in upd.fields
                    THEN upd.start_time ELSE s.start_time

NewEnd(s, upd) == IF "end_time" \in upd.fields
                  THEN upd.end_time ELSE s.end_time

TimeChanges(s) ==
    {upd \in ScheduleUpdate :
        /\ upd.fields # {}
        /\ upd.fields \subseteq {"start_time", "end_time"}
        /\ <<NewStart(s, upd), NewEnd(s, upd)>> # <<s.start_time, s.end_time>>}

Narrowings(s) ==
    {upd \in TimeChanges(s) : /\ NewStart(s, upd) >= s.start_time
                              /\ NewEnd(s, upd) <= s.end_time}

Widenings(s) ==
    {upd \in TimeChanges(s) : /\ NewStart(s, upd) <= s.start_time
                              /\ NewEnd(s, upd) >= s.end_time}

\* the future SCHEDULED appointments on the window's weekday that the new
\* bounds would leave out
LeftOut(s, upd) ==
    {a \in appointments : /\ a.doctor_id = s.doctor_id
                          /\ a.status = SCHEDULED
                          /\ a.appointment_date >= today
                          /\ Weekday(a.appointment_date) = s.day_of_week
                          /\ ~(NewStart(s, upd) <= a.appointment_time
                               /\ a.appointment_time < NewEnd(s, upd))}

\* C8: a narrowing (later start or earlier end) that would leave a future
\* SCHEDULED appointment on the window's weekday outside [newStart, newEnd)
\* is rejected, and the window keeps its old bounds.
NarrowingGuarded ==
    \A s \in schedules :
        \A upd \in Narrowings(s) :
            LeftOut(s, upd) # {} =>
                \A o \in update_doctor_schedule(s.doctor_id, s.id, upd) :
                    /\ o.result = "cannot_modify"
                    /\ o.schedules = schedules
                    /\ o.appointments = appointments

\* a booking inside a window, and a narrowing of that window that cuts it off
NarrowingGuardedWitness ==
    \E s \in schedules :
        \E upd \in Narrowings(s) :
            FutureScheduledInside(s) \cap LeftOut(s, upd) # {}

\* C9: widening a window (start not later, end not earlier) is never rejected
\* on account of appointments, whatever else the doctor has booked.
WideningNeverRejected ==
    \A s \in schedules :
        \A upd \in Widenings(s) :
            \A o \in update_doctor_schedule(s.doctor_id, s.id, upd) :
                o.result # "cannot_modify"

\* C10: removing a window deletes it when no future SCHEDULED appointment of
\* the doctor lies inside it on its weekday; otherwise the removal is rejected
\* with the number of such appointments and the window stays stored.
RemovalGuarded ==
    \A s \in schedules :
        \A o \in delete_doctor_schedule(s.doctor_id, s.id) :
            LET k == Cardinality(FutureScheduledInside(s))
            IN  /\ o.appointments = appointments
                /\ IF k = 0
                   THEN /\ o.result = "ok"
                        /\ o.schedules = schedules \ {s}
                   ELSE /\ o.result = "cannot_delete"
                        /\ o.count = k
                        /\ o.schedules = schedules

\* the first window has been removed, the remaining one holds a future booking
RemovalGuardedWitness ==
    /\ \A s \in schedules : s.id # 1
    /\ \E s \in schedules : FutureScheduledInside(s) # {}

BookersOf(slot) ==
    {p \in Patients : pend[p].pc = "done" /\ pend[p].booking = slot}

Winners(slot) == {p \in BookersOf(slot) : pend[p].result = "ok"}

PastCheck(slot) ==
    {p \in BookersOf(slot) : pend[p].result \in {"ok", "already_booked"}}

\* C2: when all patients book the identical (doctor, date, time) concurrently
\* and some request passes the availability check, exactly one request
\* succeeds, all others are refused, and the winner's appointment stands as
\* written; a slot never has two winners.
OneWinnerPerSlot ==
    \A slot \in AppointmentCreate :
        /\ Cardinality(Winners(slot)) <= 1
        /\ (BookersOf(slot) = Patients /\ PastCheck(slot) # {}) =>
              /\ Cardinality(Winners(slot)) = 1
              /\ \A p \in Patients \ Winners(slot) :
                    pend[p].result \in {"slot_not_available", "already_booked"}
        /\ \A p \in Winners(slot) :
              \E a \in appointments : /\ a.patient_id = p
                                      /\ SameSlot(a, slot)
                                      /\ a.status = SCHEDULED

\* every patient has booked the same slot, one won, and a loser was stopped
\* only by the ledger write
OneWinnerPerSlotWitness ==
    \E slot \in AppointmentCreate :
        /\ BookersOf(slot) = Patients
        /\ Cardinality(Winners(slot)) = 1
        /\ \E p \in Patients : pend[p].result = "already_booked"

\* C6: a window edit or removal racing with bookings never ends, once the
\* edit is committed and no request is in flight, with a future SCHEDULED
\* appointment outside every active window of its doctor.
RaceLeavesNoOrphan ==
    (/\ pend[DoctorId].pc = "done"
     /\ pend[DoctorId].result = "ok"
     /\ \A p \in Patients : ~InFlight(p))
    => \A a \in appointments :
          (a.status = SCHEDULED /\ a.appointment_date >= today) =>
              \E s \in ActiveWindows(a.doctor_id, a.appointment_date) :
                  Covers(s, a.appointment_time)

\* C11: the window boundary is half-open.  Booking at a window's end_time,
\* when no active window of that weekday covers that time, is refused and
\* stores nothing; booking at a window's start_time, on a date not in the
\* past and while no appointment holds that slot, is accepted and stores a
\* SCHEDULED appointment.
HalfOpenBoundary ==
    \A s \in schedules :
        (s.is_active /\ s.start_time < s.end_time) =>
            \A d \in Dates :
                (Weekday(d) = s.day_of_week /\ d >= today) =>
                    \A p \in Patients :
                        LET at_end == [doctor_id |-> s.doctor_id,
                                       appointment_date |-> d,
                                       appointment_time |-> s.end_time,
                                       reason |-> 0]
                            at_start == [at_end EXCEPT
                                           !.appointment_time = s.start_time]
                        IN  /\ (\A w \in ActiveWindows(s.doctor_id, d) :
                                    ~Covers(w, s.end_time)) =>
                                  \A o \in create_new_appointment(p, at_end) :
                                      /\ o.result = "slot_not_available"
                                      /\ o.appointments = appointments
                            /\ (\A a \in appointments : ~SameSlot(a, at_start)) =>
                                  \A o \in create_new_appointment(p, at_start) :
                                      /\ o.result = "ok"
                                      /\ \E b \in o.appointments \ appointments :
                                            /\ SameSlot(b, at_start)
                                            /\ b.status = SCHEDULED

StatusUpdate(st) == [NoAppointmentUpdate EXCEPT !.fields = {"status"},
                                                !.status = st]

\* C12: COMPLETED and CANCELLED are terminal.  No status request by any user
\* changes the status of an appointment that is COMPLETED or CANCELLED.
TerminalStatusFinal ==
    \A a \in appointments :
        a.status # SCHEDULED =>
            \A actor \in Users, st \in AppointmentStatus :
                \A o \in update_appointment_by_id(actor, a.id, StatusUpdate(st)) :
                    \A b \in o.appointments : b.id = a.id => b.status = a.status

\* every request a patient can issue, with the outcomes it can have
PatientOutcomes(p) ==
    UNION ({create_new_appointment(p, req) : req \in AppointmentCreate}
           \cup {update_appointment_by_id(p, aid, upd) :
                    aid \in AppointmentIds, upd \in AppointmentUpdate}
           \cup {cancel_appointment(p, aid) : aid \in AppointmentIds})

CancelIdempotent ==
    \A a \in appointments :
        a.status = CANCELLED =>
            \A actor \in {a.patient_id, a.doctor_id} :
                \A o \in cancel_appointment(actor, a.id) :
                    /\ o.result = "ok"
                    /\ o.appointments = appointments
                    /\ o.schedules = schedules

\* an appointment has been cancelled next to one that is still SCHEDULED
CancelIdempotentWitness ==
    \E a, b \in appointments :
        /\ a.status = CANCELLED
        /\ b.status = SCHEDULED

Reschedules ==
    {upd \in AppointmentUpdate :
        /\ upd.fields # {}
        /\ upd.fields \subseteq {"appointment_date", "appointment_time"}}

TargetOf(a, upd) ==
    [doctor_id |-> a.doctor_id,
     appointment_date |-> IF "appointment_date" \in upd.fields
                          THEN upd.appointment_date ELSE a.appointment_date,
     appointment_time |-> IF "appointment_time" \in upd.fields
                          THEN upd.appointment_time ELSE a.appointment_time,
     reason |-> 0]

\* C15: the date and the time of an appointment that is COMPLETED or
\* CANCELLED are never changed by a reschedule request of any user.
RescheduleOnlyScheduled ==
    \A a \in appointments :
        a.status # SCHEDULED =>
            \A actor \in Users, upd \in Reschedules :
                \A o \in update_appointment_by_id(actor, a.id, upd) :
                    \A b \in o.appointments :
                        b.id = a.id =>
                            /\ b.appointment_date = a.appointment_date
                            /\ b.appointment_time = a.appointment_time

\* C16: a reschedule of a SCHEDULED appointment does not conflict with the
\* appointment itself: when no other appointment holds the target slot (the
\* appointment's own slot included as a target) and the doctor's active
\* windows of that weekday cover it, the request succeeds and moves exactly
\* that appointment; when another non-cancelled appointment holds the target
\* slot the request is refused and every appointment stays as it was.
RescheduleExcludesOwnSlot ==
    \A a \in appointments :
        a.status = SCHEDULED =>
            \A actor \in {a.patient_id, a.doctor_id}, upd \in Reschedules :
                LET target == TargetOf(a, upd)
                    others == {b \in appointments \ {a} : SameSlot(b, target)}
                    windows == ActiveWindows(a.doctor_id, target.appointment_date)
                    moved == [a EXCEPT
                                !.appointment_date = target.appointment_date,
                                !.appointment_time = target.appointment_time]
                IN  \A o \in update_appointment_by_id(actor, a.id, upd) :
                        /\ (/\ others = {}
                            /\ windows # {}
                            /\ \A w \in windows :
                                  Covers(w, target.appointment_time)) =>
                              /\ o.result = "ok"
                              /\ o.appointments = (appointments \ {a}) \cup {moved}
                        /\ (\E b \in others : b.status # CANCELLED) =>
                              /\ o.result = "slot_not_available"
                              /\ o.appointments = appointments

\* two SCHEDULED appointments of one doctor, each inside the doctor's active
\* windows: either can be rescheduled onto itself or onto the other
RescheduleExcludesOwnSlotWitness ==
    \E a, b \in appointments :
        /\ a.id # b.id
        /\ a.status = SCHEDULED
        /\ b.status = SCHEDULED
        /\ a.doctor_id = b.doctor_id
        /\ \A x \in {a, b} :
              /\ ActiveWindows(x.doctor_id, x.appointment_date) # {}
              /\ \A w \in ActiveWindows(x.doctor_id, x.appointment_date) :
                    Covers(w, x.appointment_time)

Listing(u) == pend[u].pc = "listing"

Listed(u) == pend[u].pc = "listed" /\ pend[u].result = "ok"

ActiveOf(doctor_id) ==
    {w \in schedules : w.doctor_id = doctor_id /\ w.is_active}

\* the slot times a window stands for: start_time + k * slot_duration, k >= 0,
\* below end_time, in ascending order
RECURSIVE SlotTimes(_, _)
SlotTimes(w, t) ==
    IF t < w.end_time
    THEN <<t>> \o SlotTimes(w, t + w.slot_duration)
    ELSE <<>>

\* the slots of one window over the dates from..to, date by date
RECURSIVE WindowSlots(_, _, _)
WindowSlots(w, from, to) ==
    IF from > to THEN <<>>
    ELSE (IF Weekday(from) = w.day_of_week
          THEN LET times == SlotTimes(w, w.start_time)
               IN  [i \in 1..Len(times) |->
                       AvailableSlot(from, times[i], w.doctor_id)]
          ELSE <<>>)
         \o WindowSlots(w, from + 1, to)

\* a request for the slots of a doctor who has exactly one active window,
\* well-formed and with a positive slot duration, and no appointments
SingleWindow(u) ==
    /\ pend[u].pc \in {"listing", "listed"}
    /\ pend[u].start_date <= pend[u].end_date
    /\ \E w \in schedules :
          /\ ActiveOf(pend[u].doctor_id) = {w}
          /\ w.start_time < w.end_time
          /\ w.slot_duration >= 1
    /\ \A a \in appointments : a.doctor_id # pend[u].doctor_id

\* C17: for a doctor with a single active window [start_time, end_time) with
\* slot duration d and no bookings, the listing returns, and returns exactly
\* the slots start_time + k * d below end_time on the dates of the window's
\* weekday, in order, and nothing on the other dates.
SingleWindowSlots ==
    /\ [](\A u \in Users :
            (Listed(u) /\ SingleWindow(u)) =>
                LET w == CHOOSE x \in ActiveOf(pend[u].doctor_id) : TRUE
                IN  pend[u].available_slots =
                        WindowSlots(w, pend[u].start_date, pend[u].end_date))
    /\ \A u \in Users : (Listing(u) /\ SingleWindow(u)) ~> Listed(u)

ListedAt(u, d, t) ==
    \E i \in 1..Len(pend[u].available_slots) :
        /\ pend[u].available_slots[i].date = d
        /\ pend[u].available_slots[i].time = t

HeldAt(doctor_id, d, t) ==
    {a \in appointments : /\ a.doctor_id = doctor_id
                          /\ a.appointment_date = d
                          /\ a.appointment_time = t}

\* the (date, time) pairs the doctor's active windows generate in a range
Generated(doctor_id, from, to) ==
    {<<d, t>> \in (from..to) \X Times :
        \E w \in ActiveOf(doctor_id) :
            /\ w.day_of_week = Weekday(d)
            /\ w.slot_duration >= 1
            /\ Covers(w, t)
            /\ (t - w.start_time) % w.slot_duration = 0}

\* C18: a returned listing contains no (date, time) held by a SCHEDULED or
\* COMPLETED appointment of the doctor, and it contains every generated
\* (date, time) of the range that no such appointment holds, those whose
\* only appointment is CANCELLED included.
BookedNeverListed ==
    \A u \in Users :
        Listed(u) =>
            /\ \A i \in 1..Len(pend[u].available_slots) :
                  \A a \in HeldAt(pend[u].doctor_id,
                                  pend[u].available_slots[i].date,
                                  pend[u].available_slots[i].time) :
                      a.status = CANCELLED
            /\ \A x \in Generated(pend[u].doctor_id, pend[u].start_date,
                                  pend[u].end_date) :
                  (\A a \in HeldAt(pend[u].doctor_id, x[1], x[2]) :
                        a.status = CANCELLED)
                      => ListedAt(u, x[1], x[2])

\* a returned listing over a range in which one generated slot is held by a
\* live appointment and is left out, and another one, whose appointment was
\* cancelled, is listed
BookedNeverListedWitness ==
    \E u \in Users :
        /\ Listed(u)
        /\ \E x \in Generated(pend[u].doctor_id, pend[u].start_date,
                              pend[u].end_date) :
              /\ \E a \in HeldAt(pend[u].doctor_id, x[1], x[2]) :
                    a.status # CANCELLED
              /\ ~ListedAt(u, x[1], x[2])
        /\ \E x \in Generated(pend[u].doctor_id, pend[u].start_date,
                              pend[u].end_date) :
              /\ \E a \in HeldAt(pend[u].doctor_id, x[1], x[2]) :
                    a.status = CANCELLED
              /\ ListedAt(u, x[1], x[2])

Overlapping(doctor_id) ==
    \E v, w \in ActiveOf(doctor_id) :
        /\ v.id # w.id
        /\ v.day_of_week = w.day_of_week
        /\ v.start_time < w.end_time
        /\ w.start_time < v.end_time

WellFormed(doctor_id) ==
    \A w \in ActiveOf(doctor_id) :
        w.start_time < w.end_time /\ w.slot_duration >= 1

\* C19: when the doctor has active windows (well-formed, positive slot
\* durations) on one weekday whose time ranges overlap, a returned listing
\* has no two slots with the same (date, time).
NoDuplicateSlots ==
    \A u \in Users :
        (/\ Listed(u)
         /\ Overlapping(pend[u].doctor_id)
         /\ WellFormed(pend[u].doctor_id)) =>
            \A i, j \in 1..Len(pend[u].available_slots) :
                (/\ pend[u].available_slots[i].date
                       = pend[u].available_slots[j].date
                 /\ pend[u].available_slots[i].time
                       = pend[u].available_slots[j].time) => i = j

\* C20: every listing request over a range start_date <= end_date returns,
\* whatever windows have been stored.
ListingTerminates ==
    \A u \in Users : Listing(u) ~> Listed(u)

\* the times of day the loop over window w can reach from its start_time
OnOrbit(w, t) ==
    \E k \in 0..TicksPerDay :
        (w.start_time + k * w.slot_duration) % TicksPerDay = t

\* the parts of C21 that depend on the stored rows only
InactiveNotBookable ==
    /\ \A doctor_id \in Doctors :
          \A q \in get_schedules_by_doctor(schedules, doctor_id) :
              /\ \A i \in 1..Len(q) : q[i].is_active
              /\ {q[i] : i \in 1..Len(q)} = ActiveOf(doctor_id)
    /\ \A req \in AppointmentCreate :
          (\A w \in ActiveWindows(req.doctor_id, req.appointment_date) :
                ~Covers(w, req.appointment_time)) =>
              \A p \in Patients :
                  \A o \in create_new_appointment(p, req) :
                      o.result # "ok" /\ o.appointments = appointments
    /\ \A a \in appointments :
          \A upd \in Reschedules :
              (\A w \in ActiveWindows(a.doctor_id,
                                      TargetOf(a, upd).appointment_date) :
                    ~Covers(w, TargetOf(a, upd).appointment_time)) =>
                  \A actor \in {a.patient_id, a.doctor_id} :
                      \A o \in update_appointment_by_id(actor, a.id, upd) :
                          o.result # "ok" /\ o.appointments = appointments
    /\ \A s \in schedules :
          \A o \in update_doctor_schedule(s.doctor_id, s.id, Deactivate) :
              \E x \in o.schedules :
                  /\ x.id = s.id
                  /\ x.start_time = s.start_time
                  /\ x.end_time = s.end_time

\* C21: an inactive window produces nothing bookable.  Every slot of a
\* returned listing comes from an active window of that weekday; the windows
\* the doctor's listing query returns are all active; a booking or a
\* reschedule onto a time that no active window of the weekday covers is
\* refused and stores nothing; and a deactivation keeps the window's row.
InactiveWindowsInert ==
    /\ \A u \in Users :
          Listed(u) =>
              \A i \in 1..Len(pend[u].available_slots) :
                  \E w \in ActiveOf(pend[u].doctor_id) :
                      /\ w.day_of_week = Weekday(pend[u].available_slots[i].date)
                      /\ pend[u].available_slots[i].time < w.end_time
                      /\ OnOrbit(w, pend[u].available_slots[i].time)
    /\ NoListing => InactiveNotBookable

\* a returned listing with slots of an active window, while a deactivated
\* window of a weekday in the range is still stored and none of its times
\* is listed
InactiveWindowsInertWitness ==
    \E u \in Users :
        /\ Listed(u)
        /\ pend[u].available_slots # <<>>
        /\ \E v \in schedules :
              /\ ~v.is_active
              /\ v.start_time < v.end_time
              /\ \E d \in pend[u].start_date..pend[u].end_date :
                    /\ Weekday(d) = v.day_of_week
                    /\ \A t \in Times : Covers(v, t) => ~ListedAt(u, d, t)

SameWindow(v, w) ==
    /\ v.doctor_id = w.doctor_id
    /\ v.day_of_week = w.day_of_week
    /\ v.start_time = w.start_time
    /\ v.end_time = w.end_time

WindowBoundsOrdered ==
    \A s \in schedules : s.start_time < s.end_time

\* C24: every stored window has a positive slot_duration.
SlotDurationPositive ==
    \A s \in schedules : s.slot_duration >= 1

\* every request of the six mutating endpoints, with the outcomes it can have
AllOutcomes ==
    UNION (UNION {
        {create_doctor_schedule(actor, req) : req \in ScheduleCreate}
        \cup {update_doctor_schedule(actor, sid, upd) :
                 sid \in ScheduleIds, upd \in ScheduleUpdate}
        \cup {delete_doctor_schedule(actor, sid) : sid \in ScheduleIds}
        \cup {create_new_appointment(actor, req) : req \in AppointmentCreate}
        \cup {update_appointment_by_id(actor, aid, upd) :
                 aid \in AppointmentIds, upd \in AppointmentUpdate}
        \cup {cancel_appointment(actor, aid) : aid \in AppointmentIds} :
        actor \in Users})

\* C25: every failure of a booking, reschedule, status change, window
\* creation, edit or removal is answered with one of the handler's own
\* error responses; none ends in an exception the handler does not catch.
NoUnhandledFailure ==
    \A o \in AllOutcomes : o.result # "unhandled_error"

\* C26: a booking for a date before today is rejected at validation and
\* stores nothing; a booking for today is never rejected for its date, and
\* is accepted when no appointment holds the slot and the doctor's active
\* windows of that weekday cover the time.
PastDateRejected ==
    \A req \in AppointmentCreate :
        \A p \in Patients :
            \A o \in create_new_appointment(p, req) :
                /\ req.appointment_date < today =>
                      /\ o.result = "validation_error"
                      /\ o.appointments = appointments
                /\ req.appointment_date = today =>
                      /\ o.result # "validation_error"
                      /\ (/\ \A a \in appointments : ~SameSlot(a, req)
                          /\ ActiveWindows(req.doctor_id, today) # {}
                          /\ \A w \in ActiveWindows(req.doctor_id, today) :
                                Covers(w, req.appointment_time)) =>
                            /\ o.result = "ok"
                            /\ \E b \in o.appointments \ appointments :
                                  /\ SameSlot(b, req)
                                  /\ b.appointment_date = today

\* an appointment booked for today stands while yesterday is in the past
PastDateRejectedWitness ==
    /\ today > 0
    /\ \E a \in appointments :
          a.appointment_date = today /\ a.status = SCHEDULED
    /\ \E req \in AppointmentCreate :
          /\ req.appointment_date < today
          /\ ActiveWindows(req.doctor_id, req.appointment_date) # {}

\* every request of the three appointment endpoints, with its outcomes
AppointmentOutcomes ==
    UNION (UNION {
        {create_new_appointment(actor, req) : req \in AppointmentCreate}
        \cup {update_appointment_by_id(actor, aid, upd) :
                 aid \in AppointmentIds, upd \in AppointmentUpdate}
        \cup {cancel_appointment(actor, aid) : aid \in AppointmentIds} :
        actor \in Users})

\* C27: no booking, reschedule, status change or cancellation removes an
\* appointment: every stored id is still stored afterwards, with the same
\* doctor and patient, and a cancellation changes nothing but the status of
\* its appointment, to CANCELLED.
NeverPhysicallyRemoved ==
    /\ \A o \in AppointmentOutcomes :
          \A a \in appointments :
              \E b \in o.appointments :
                  /\ b.id = a.id
                  /\ b.doctor_id = a.doctor_id
                  /\ b.patient_id = a.patient_id
    /\ \A a \in appointments :
          \A actor \in {a.patient_id, a.doctor_id} :
              \A o \in cancel_appointment(actor, a.id) :
                  o.appointments =
                      (appointments \ {a}) \cup {[a EXCEPT !.status = CANCELLED]}

\* the first appointment ever booked is stored as CANCELLED next to a later one
NeverPhysicallyRemovedWitness ==
    \E a, b \in appointments :
        /\ a.id = 1
        /\ a.status = CANCELLED
        /\ b.id > a.id

\* C28: a booking passes the window check exactly when some active window of
\* the doctor on the date's weekday covers the time: with the date not in
\* the past and no appointment on the slot, it is accepted if such a window
\* exists, whichever window the storage returns first, and refused if none
\* does.
WindowCheckAnyWindow ==
    \A req \in AppointmentCreate :
        (/\ req.appointment_date >= today
         /\ \A a \in appointments : ~SameSlot(a, req)) =>
            \A p \in Patients :
                \A o \in create_new_appointment(p, req) :
                    (o.result = "ok") <=>
                        \E w \in ActiveWindows(req.doctor_id,
                                               req.appointment_date) :
                            Covers(w, req.appointment_time)

\* C29: a reschedule of a SCHEDULED appointment onto a target other than its
\* own slot can succeed exactly when a booking of that target by its patient
\* can succeed in the same state.
RescheduleAsBooking ==
    \A a \in appointments :
        a.status = SCHEDULED =>
            \A upd \in Reschedules :
                ~SameSlot(a, TargetOf(a, upd)) =>
                    \A actor \in {a.patient_id, a.doctor_id} :
                        (\E o \in update_appointment_by_id(actor, a.id, upd) :
                              o.result = "ok")
                        <=> (\E o \in create_new_appointment(a.patient_id,
                                                           TargetOf(a, upd)) :
                              o.result = "ok")

\* C30: a change of a window's start/end is rejected for its appointments
\* exactly when some future SCHEDULED appointment of the doctor on the
\* window's weekday is inside the old bounds and outside the new ones, and
\* the count reported is the number of those appointments.
TimeChangeCountExact ==
    \A s \in schedules :
        \A upd \in TimeChanges(s) :
            \A o \in update_doctor_schedule(s.doctor_id, s.id, upd) :
                LET stranded == FutureScheduledInside(s) \cap LeftOut(s, upd)
                IN  /\ (o.result = "cannot_modify") <=> (stranded # {})
                    /\ o.result = "cannot_modify" =>
                          o.count = Cardinality(stranded)

\* the responses with which a window edit or removal is refused on account of
\* appointments or of an identical window
GuardRejections ==
    {"cannot_deactivate", "cannot_modify", "cannot_delete", "duplicate_schedule"}

\* C31: a window edit or removal that is refused (by the conflict scan, as a
\* duplicate, or for any other cause) leaves every stored window and every
\* stored appointment exactly as it was.
RejectionChangesNothing ==
    \A actor \in Users, sid \in ScheduleIds :
        /\ \A upd \in ScheduleUpdate :
              \A o \in update_doctor_schedule(actor, sid, upd) :
                  o.result # "ok" =>
                      /\ o.schedules = schedules
                      /\ o.appointments = appointments
        /\ \A o \in delete_doctor_schedule(actor, sid) :
              o.result # "ok" =>
                  /\ o.schedules = schedules
                  /\ o.appointments = appointments

\* one state in which a deactivation, a time change, a removal and an edit
\* into an identical window are each refused
RejectionChangesNothingWitness ==
    \A r \in GuardRejections :
        \E s \in schedules :
            \/ \E upd \in ScheduleUpdate :
                  \E o \in update_doctor_schedule(s.doctor_id, s.id, upd) :
                      o.result = r
            \/ \E o \in delete_doctor_schedule(s.doctor_id, s.id) :
                  o.result = r

\* every step of every active window's slot grid stays within the day
WithinDay(doctor_id) ==
    \A w \in ActiveOf(doctor_id) :
        w.end_time - 1 + w.slot_duration <= MaxTime

\* C32: a returned listing is ordered by date and, within a date, by time
\* (equal times in window order), whatever well-formed active windows the
\* doctor has on one weekday, their slot grids staying within the day.
ListingOrdered ==
    \A u \in Users :
        (/\ Listed(u)
         /\ WellFormed(pend[u].doctor_id)
         /\ WithinDay(pend[u].doctor_id)) =>
            \A i, j \in 1..Len(pend[u].available_slots) :
                i < j =>
                    \/ pend[u].available_slots[i].date
                          < pend[u].available_slots[j].date
                    \/ /\ pend[u].available_slots[i].date
                             = pend[u].available_slots[j].date
                       /\ pend[u].available_slots[i].time
                             <= pend[u].available_slots[j].time

\* the appointments the guard scans look at
FutureScheduled ==
    {a \in appointments : a.status = SCHEDULED /\ a.appointment_date >= today}

OnWeekdayInside(s, a) ==
    /\ a.doctor_id = s.doctor_id
    /\ Weekday(a.appointment_date) = s.day_of_week
    /\ Covers(s, a.appointment_time)

\* C33: the conflict scans of a deactivation, a time change and a removal
\* see future SCHEDULED appointments only: their verdict and their count are
\* the ones they would give if the COMPLETED, the CANCELLED and the past
\* appointments were not stored, and a request is refused with a count only
\* when it counts that many future SCHEDULED appointments.
ScanScheduledOnly ==
    \A s \in schedules :
        /\ \A upd \in ScheduleUpdate :
              /\ update_schedule_scan(s, appointments, upd)
                    = update_schedule_scan(s, FutureScheduled, upd)
              /\ \A o \in update_doctor_schedule(s.doctor_id, s.id, upd) :
                    o.result \in {"cannot_deactivate", "cannot_modify"} =>
                        /\ o.count >= 1
                        /\ o.count <= Cardinality(FutureScheduled)
        /\ delete_schedule_scan(s, appointments)
              = delete_schedule_scan(s, FutureScheduled)
        /\ \A o \in delete_doctor_schedule(s.doctor_id, s.id) :
              /\ o.result = "cannot_delete" =>
                    /\ o.count >= 1
                    /\ o.count <= Cardinality(FutureScheduled)
              /\ (\A a \in FutureScheduled : ~OnWeekdayInside(s, a)) =>
                    o.result = "ok"
        /\ \A o \in update_doctor_schedule(s.doctor_id, s.id, Deactivate) :
              (\A a \in FutureScheduled : ~OnWeekdayInside(s, a)) =>
                  o.result = "ok"

\* a window holds a future appointment that is COMPLETED or CANCELLED and
\* no SCHEDULED one: its removal and its deactivation are accepted
ScanScheduledOnlyWitness ==
    \E s \in schedules :
        /\ s.is_active
        /\ \E a \in appointments :
              /\ OnWeekdayInside(s, a)
              /\ a.appointment_date >= today
              /\ a.status # SCHEDULED
        /\ \A o \in delete_doctor_schedule(s.doctor_id, s.id) : o.result = "ok"
        /\ \A o \in update_doctor_schedule(s.doctor_id, s.id, Deactivate) :
              o.result = "ok"

\* the booking request for a listed slot
BookingOf(slot) ==
    [doctor_id |-> slot.doctor_id, appointment_date |-> slot.date,
     appointment_time |-> slot.time, reason |-> 0]

\* C34: with nothing else happening in between, every slot of a returned
\* listing whose date is not in the past can be booked: the booking request
\* for it, by any patient, is accepted.  The doctor's active windows are
\* well-formed and their slot grids stay within the day.
ListedSlotsBookable ==
    \A u \in Users :
        (/\ Listed(u)
         /\ WellFormed(pend[u].doctor_id)
         /\ WithinDay(pend[u].doctor_id)) =>
            \A i \in 1..Len(pend[u].available_slots) :
                pend[u].available_slots[i].date >= today =>
                    \A p \in Patients :
                        \A o \in create_new_appointment(p,
                                  BookingOf(pend[u].available_slots[i])) :
                            o.result = "ok"

\* C35: a (doctor, date, time) has at most one appointment row, whatever the
\* rows' statuses: a CANCELLED row keeps its slot, so that a booking of the
\* slot or a reschedule of another appointment onto it stores nothing new.
OneRowPerSlot ==
    /\ \A a, b \in appointments : SameSlot(a, b) => a.id = b.id
    /\ \A a \in appointments :
          a.status = CANCELLED =>
              /\ \A p \in Patients :
                    \A o \in create_new_appointment(p, SlotOf(a)) :
                        o.result # "ok" /\ o.appointments = appointments
              /\ \A b \in appointments \ {a} :
                    \A upd \in Reschedules :
                        SameSlot(a, TargetOf(b, upd)) =>
                            \A o \in update_appointment_by_id(b.doctor_id,
                                                              b.id, upd) :
                                o.result # "ok" /\ o.appointments = appointments

\* a CANCELLED appointment whose slot is today or later and inside all the
\* doctor's active windows of the weekday, next to a SCHEDULED appointment
\* that could be moved onto it
OneRowPerSlotWitness ==
    \E a, b \in appointments :
        /\ a.status = CANCELLED
        /\ a.appointment_date >= today
        /\ ActiveWindows(a.doctor_id, a.appointment_date) # {}
        /\ \A w \in ActiveWindows(a.doctor_id, a.appointment_date) :
              Covers(w, a.appointment_time)
        /\ b.status = SCHEDULED
        /\ b.doctor_id = a.doctor_id
        /\ b.id # a.id

\* C36: a booking or an update of an appointment that fails, at the
\* availability check or at the write, leaves the stored appointments and
\* windows exactly as they were: no row is added and the appointment keeps
\* its date, time, status and reason.
FailureLeavesLedger ==
    \A actor \in Users :
        /\ \A req \in AppointmentCreate :
              \A o \in create_new_appointment(actor, req) :
                  o.result # "ok" =>
                      /\ o.appointments = appointments
                      /\ o.schedules = schedules
        /\ \A aid \in AppointmentIds, upd \in AppointmentUpdate :
              \A o \in update_appointment_by_id(actor, aid, upd) :
                  o.result # "ok" =>
                      /\ o.appointments = appointments
                      /\ o.schedules = schedules

\* the update that moves appointment b onto the slot of a with a new reason
MoveOnto(a, b) ==
    [NoAppointmentUpdate EXCEPT
        !.fields = {"appointment_date", "appointment_time", "reason"},
        !.appointment_date = a.appointment_date,
        !.appointment_time = a.appointment_time,
        !.reason = (b.reason + 1) % (MaxReason + 1)]

\* a booking of a held slot fails at the check, and a reschedule with a new
\* reason onto the slot of a CANCELLED appointment fails at the write
FailureLeavesLedgerWitness ==
    \E a, b \in appointments :
        /\ a.id # b.id
        /\ a.status = CANCELLED
        /\ b.status = SCHEDULED
        /\ \E o \in update_appointment_by_id(b.doctor_id, b.id, MoveOnto(a, b)) :
              o.result = "unhandled_error"
        /\ \E o \in create_new_appointment(b.patient_id, SlotOf(b)) :
              o.result = "slot_not_available"

\* the row stored under id aid in an outcome
RowAfter(o, aid) == {b \in o.appointments : b.id = aid}

\* C37: appointment requests keep identity and ownership.  No booking,
\* update or cancellation changes the id, doctor or patient of a stored
\* appointment or touches a window; a booking leaves the stored rows as they
\* are; a status change or a cancellation leaves date, time and reason; a
\* reschedule leaves the status.
IdentityPreserved ==
    /\ \A o \in AppointmentOutcomes :
          /\ o.schedules = schedules
          /\ \A a \in appointments :
                /\ Cardinality(RowAfter(o, a.id)) = 1
                /\ \A b \in RowAfter(o, a.id) :
                      /\ b.doctor_id = a.doctor_id
                      /\ b.patient_id = a.patient_id
    /\ \A actor \in Users, req \in AppointmentCreate :
          \A o \in create_new_appointment(actor, req) :
              appointments \subseteq o.appointments
    /\ \A a \in appointments, actor \in Users :
          /\ \A st \in AppointmentStatus :
                \A o \in update_appointment_by_id(actor, a.id, StatusUpdate(st)) :
                    \A b \in o.appointments :
                        \/ b \in appointments
                        \/ b = [a EXCEPT !.status = st]
          /\ \A o \in cancel_appointment(actor, a.id) :
                \A b \in o.appointments :
                    \/ b \in appointments
                    \/ b = [a EXCEPT !.status = CANCELLED]
          /\ \A upd \in Reschedules :
                \A o \in update_appointment_by_id(actor, a.id, upd) :
                    \A b \in o.appointments :
                        \/ b \in appointments
                        \/ /\ b.id = a.id
                           /\ b.status = a.status
                           /\ b.reason = a.reason

\* a COMPLETED appointment next to a SCHEDULED one that its patient can move
\* to another slot
IdentityPreservedWitness ==
    \E a, b \in appointments :
        /\ a.id # b.id
        /\ b.status = COMPLETED
        /\ a.status = SCHEDULED
        /\ a.patient_id # b.patient_id
        /\ \E upd \in Reschedules :
              /\ ~SameSlot(a, TargetOf(a, upd))
              /\ \E o \in update_appointment_by_id(a.patient_id, a.id, upd) :
                    o.result = "ok"

====
